---- MODULE Spec2Model ----
\* ax/Config.h: the compile-time configuration of the path to the axlockd binary.
\*
\*   #ifdef AXLOCKD_PATH_VALUE
\*   static const char * const AXLOCKD_PATH = AXLOCKD_PATH_VALUE;
\*   #else
\*   static const char * const AXLOCKD_PATH = the null pointer constant;
\*   #endif
\*
\* The build parameter is the macro AXLOCKD_PATH_VALUE: not defined, or defined
\* as a string literal (-DAXLOCKD_PATH_VALUE='"/usr/local/libexec/axlockd"').
\* A string is a C string: its characters contain no NUL.  The literal is stored
\* as an array of its characters followed by NUL, AXLOCKD_PATH is a pointer to
\* that array or the null pointer, and whoever uses the path reads the
\* characters up to the first NUL.
EXTENDS Integers, Sequences, FiniteSets, TLC

\* Longest string literal the build parameter is given.
MaxLen == 3
\* Number of concurrent readers of AXLOCKD_PATH.
NumReaders == 2
\* Number of reads each reader performs.
MaxReads == 2

\* Characters of the build parameter: a path separator, a dot (".." segments),
\* a space (surrounding spaces) and a letter.
Chars == {"/", ".", " ", "a"}
\* The terminator of a string literal's array.
NUL == "NUL"

Strings == UNION {[1..k -> Chars] : k \in 0..MaxLen}
Readers == 1..NumReaders

\* Pointer values: the null pointer, the address of the string literal's array,
\* and the value of an object that has no definition yet.
NullPtr == 0
LiteralAddr == 1
Indeterminate == 2

VARIABLES
    AXLOCKD_PATH_VALUE, \* the macro: [defined, lit]
    phase,              \* "build": Config.h not yet translated; "run": the process runs
    mode,               \* the branches of the #ifdef that produced a definition
    AXLOCKD_PATH,       \* the pointer
    rodata,             \* the array at LiteralAddr (<<>>: no such array)
    helperInstalled,    \* environment: an axlockd binary exists on the filesystem
    reads               \* per reader, the values it has read so far

vars == <<AXLOCKD_PATH_VALUE, phase, mode, AXLOCKD_PATH, rodata, helperInstalled, reads>>

\* The build parameter omitted / supplied with the string s.
Omitted == [defined |-> FALSE, lit |-> <<>>]
Supplied(s) == [defined |-> TRUE, lit |-> s]
Builds == {Omitted} \cup {Supplied(s) : s \in Strings}

----------------------------------------------------------------------------
\* Pure parts of the translation of Config.h.

RECURSIVE DropTrailingSlashes(_)
DropTrailingSlashes(s) ==
    IF s # <<>> /\ s[Len(s)] = "/" THEN DropTrailingSlashes(SubSeq(s, 1, Len(s) - 1)) ELSE s

\* Variant: the path is canonicalised (trailing separators dropped) when stored.
StringLiteralCanonical(s) == DropTrailingSlashes(s) \o <<NUL>>

RECURSIVE DropLeadingSpaces(_)
DropLeadingSpaces(s) ==
    IF s # <<>> /\ Head(s) = " " THEN DropLeadingSpaces(Tail(s)) ELSE s

\* Variant: surrounding spaces are trimmed when the path is stored.
StringLiteralTrimmed(s) == DropLeadingSpaces(s) \o <<NUL>>

\* Variant: the array holds the characters without the terminator.
StringLiteralUnterminated(s) == s

\* The array a string literal with characters s occupies.
StringLiteral(s) == s \o <<NUL>>

\* Variant: the #else is lost, the second definition is always produced.
BranchTakenNoElse(b, m) ==
    IF b = "distribution" THEN m.defined ELSE TRUE

\* Which group of #ifdef AXLOCKD_PATH_VALUE / #else / #endif is kept.
BranchTaken(b, m) ==
    IF b = "distribution" THEN m.defined ELSE ~m.defined

Branches(m) == {b \in {"distribution", "development"} : BranchTaken(b, m)}

\* Variant: an empty string is replaced by the null pointer.
InitializerEmptyAsNull(m) ==
    IF "distribution" \in Branches(m) /\ m.lit # <<>> THEN LiteralAddr ELSE NullPtr

\* Variant: the development default is the empty string "".
InitializerEmptyDefault(m) == LiteralAddr

\* Variant: with no path configured, the resolver searches the filesystem itself.
InitializerWithSearch(m) ==
    IF "distribution" \in Branches(m) \/ helperInstalled THEN LiteralAddr ELSE NullPtr

\* The initializer of AXLOCKD_PATH: the macro's expansion, or a null pointer.
Initializer(m) ==
    IF "distribution" \in Branches(m) THEN LiteralAddr ELSE NullPtr

\* The array at LiteralAddr: the literal's, when the macro's expansion is compiled.
Storage(m) ==
    IF Initializer(m) = LiteralAddr THEN StringLiteral(m.lit) ELSE <<>>

\* The characters of the array a up to the first NUL.
RECURSIVE CStr(_)
CStr(a) ==
    IF a = <<>> \/ Head(a) = NUL THEN <<>> ELSE <<Head(a)>> \o CStr(Tail(a))

Absent == [kind |-> "absent", str |-> <<>>]
Str(s) == [kind |-> "string", str |-> s]
Garbage == [kind |-> "garbage", str |-> <<>>]

\* What a const char * designates: nothing (null), the string at the array it
\* points to, or, for a pointer to no terminated array, no defined value.
ValueOf(p, mem) ==
    IF p = NullPtr THEN Absent
    ELSE IF p = LiteralAddr /\ \E i \in 1..Len(mem) : mem[i] = NUL THEN Str(CStr(mem))
    ELSE Garbage

\* The resolved value in the current state.
Resolved == ValueOf(AXLOCKD_PATH, rodata)

----------------------------------------------------------------------------
Init ==
    /\ AXLOCKD_PATH_VALUE \in Builds
    /\ phase = "build"
    /\ mode = {}
    /\ AXLOCKD_PATH = Indeterminate
    /\ rodata = <<>>
    /\ helperInstalled \in BOOLEAN
    /\ reads = [r \in Readers |-> <<>>]

\* Variant: the path is looked up again while the process runs.
CompileAtRuntime ==
    /\ phase' = "run"
    /\ mode' = Branches(AXLOCKD_PATH_VALUE)
    /\ AXLOCKD_PATH' = IF helperInstalled THEN Initializer(AXLOCKD_PATH_VALUE) ELSE NullPtr
    /\ rodata' = Storage(AXLOCKD_PATH_VALUE)
    /\ UNCHANGED <<AXLOCKD_PATH_VALUE, helperInstalled, reads>>

\* Variant: the object is left to an initialiser that has not run at startup.
CompileUninitialised ==
    /\ phase = "build"
    /\ phase' = "run"
    /\ mode' = Branches(AXLOCKD_PATH_VALUE)
    /\ UNCHANGED <<AXLOCKD_PATH_VALUE, AXLOCKD_PATH, rodata, helperInstalled, reads>>

\* Translation of Config.h: the conditional is evaluated, the definition it
\* keeps is compiled, and the object is initialised statically, before startup.
Compile ==
    /\ phase = "build"
    /\ phase' = "run"
    /\ mode' = Branches(AXLOCKD_PATH_VALUE)
    /\ AXLOCKD_PATH' = Initializer(AXLOCKD_PATH_VALUE)
    /\ rodata' = Storage(AXLOCKD_PATH_VALUE)
    /\ UNCHANGED <<AXLOCKD_PATH_VALUE, helperInstalled, reads>>

\* A reader of the running process reads AXLOCKD_PATH, without synchronisation.
Read(r) ==
    /\ phase = "run"
    /\ Len(reads[r]) < MaxReads
    /\ reads' = [reads EXCEPT ![r] = Append(@, Resolved)]
    /\ UNCHANGED <<AXLOCKD_PATH_VALUE, phase, mode, AXLOCKD_PATH, rodata, helperInstalled>>

\* The filesystem changes: the helper binary is installed or removed.
EnvChange ==
    /\ helperInstalled' = ~helperInstalled
    /\ UNCHANGED <<AXLOCKD_PATH_VALUE, phase, mode, AXLOCKD_PATH, rodata, reads>>

Next ==
    \/ Compile
    \/ \E r \in Readers : Read(r)
    \/ EnvChange

Spec == Init /\ [][Next]_vars

TypeOK ==
    /\ AXLOCKD_PATH_VALUE \in Builds
    /\ phase \in {"build", "run"}
    /\ AXLOCKD_PATH \in {NullPtr, LiteralAddr, Indeterminate}
    /\ helperInstalled \in BOOLEAN

----------------------------------------------------------------------------
\* Vocabulary of the properties.

\* The value the build parameter m selects, as the specification states it.
Expected(m) == IF m.defined THEN Str(m.lit) ELSE Absent

\* What a caller concludes about the build from a resolved value.
Recover(v) == IF v.kind = "absent" THEN Omitted ELSE Supplied(v.str)

IsAbsolutePath(s) == s # <<>> /\ s[1] = "/"

\* Every value read so far.
AllReads == UNION {{reads[r][i] : i \in 1..Len(reads[r])} : r \in Readers}

----------------------------------------------------------------------------
\* C1: when the build parameter is supplied with a non-empty string S, the
\* resolved value is the string S, character for character (trailing slashes,
\* ".." segments and surrounding spaces included), and so is every value read.
C1_Verbatim ==
    (phase = "run" /\ AXLOCKD_PATH_VALUE.defined /\ AXLOCKD_PATH_VALUE.lit # <<>>) =>
        /\ Resolved = Str(AXLOCKD_PATH_VALUE.lit)
        /\ \A v \in AllReads : v.kind = "string" /\ v.str = AXLOCKD_PATH_VALUE.lit

\* A build with the path " /." (leading space, dot segment), read by a reader.
C1_Witness ==
    /\ phase = "run"
    /\ AXLOCKD_PATH_VALUE = Supplied(<<" ", "/", ".">>)
    /\ Len(reads[1]) = 1

\* C2: when the build parameter is omitted, the resolved value is the null
\* pointer, the absent value: not the empty string, not an undefined value.
C2_OmittedIsNull ==
    (phase = "run" /\ ~AXLOCKD_PATH_VALUE.defined) =>
        /\ AXLOCKD_PATH = NullPtr
        /\ Resolved = Absent
        /\ Resolved # Str(<<>>)
        /\ Resolved # Garbage
        /\ \A v \in AllReads : v = Absent

\* A development build whose readers have all read twice.
C2_Witness ==
    /\ phase = "run"
    /\ AXLOCKD_PATH_VALUE = Omitted
    /\ \A r \in Readers : Len(reads[r]) >= 2

\* C3 as stated: the resolved value is either a non-empty absolute path or the
\* absent value, in every build.
C3_AlwaysAbsoluteOrAbsent ==
    phase = "run" =>
        \/ Resolved = Absent
        \/ Resolved.kind = "string" /\ IsAbsolutePath(Resolved.str)

\* C3: the resolved value is either the absent value or a string, and the string
\* is a non-empty absolute path whenever the supplied build parameter is one.
C3_AbsoluteWhenSupplied ==
    phase = "run" =>
        /\ Resolved.kind \in {"absent", "string"}
        /\ (AXLOCKD_PATH_VALUE.defined /\ IsAbsolutePath(AXLOCKD_PATH_VALUE.lit)) =>
               (Resolved.kind = "string" /\ IsAbsolutePath(Resolved.str))

\* A build whose supplied path is absolute and consists of separators only.
C3_Witness ==
    /\ phase = "run"
    /\ AXLOCKD_PATH_VALUE = Supplied(<<"/", "/">>)
    /\ IsAbsolutePath(Resolved.str)

\* C4: once the process runs, no step changes AXLOCKD_PATH or the string it
\* points to, and all the reads of a process return the same value.
C4_FixedForLifetime ==
    /\ [][phase = "run" =>
            (AXLOCKD_PATH' = AXLOCKD_PATH /\ rodata' = rodata /\ Resolved' = Resolved)]_vars
    /\ [](\A v \in AllReads, w \in AllReads : v = w)

\* A reader has read twice and another reader has read as well.
C4_Witness ==
    /\ phase = "run"
    /\ Len(reads[1]) >= 2
    /\ Len(reads[2]) >= 1
    /\ AXLOCKD_PATH_VALUE.defined

\* C5: under every interleaving of the readers, every value a reader observes is
\* the one the build parameter selects; nothing is read before the value is
\* established, and no reader sees an undefined value.
C5_ReadersAgree ==
    /\ phase = "build" => AllReads = {}
    /\ \A v \in AllReads : v = Expected(AXLOCKD_PATH_VALUE) /\ v # Garbage

\* Two readers interleaved: the second has finished, the first is half way.
C5_Witness ==
    /\ Len(reads[1]) = 1
    /\ Len(reads[2]) = MaxReads
    /\ AXLOCKD_PATH_VALUE = Supplied(<<"/", "a">>)

\* C6: when the build parameter is supplied as the empty string, the resolved
\* value is the empty string, not the absent value.
C6_EmptyPassThrough ==
    (phase = "run" /\ AXLOCKD_PATH_VALUE = Supplied(<<>>)) =>
        /\ AXLOCKD_PATH # NullPtr
        /\ Resolved = Str(<<>>)
        /\ \A v \in AllReads : v = Str(<<>>)

\* A build with the empty string, read once.
C6_Witness ==
    /\ phase = "run"
    /\ AXLOCKD_PATH_VALUE = Supplied(<<>>)
    /\ Len(reads[2]) = 1
    /\ reads[1] = <<>>

\* C7: the build configuration (omitted, or supplied with S) is recovered from
\* the resolved value, and from every value read: the mapping from
\* configurations to resolved values is injective.
C7_Distinguishable ==
    phase = "run" =>
        /\ Recover(Resolved) = AXLOCKD_PATH_VALUE
        /\ \A v \in AllReads : Recover(v) = AXLOCKD_PATH_VALUE

\* The supplied string closest to an omitted parameter: the empty string, read
\* by every reader and told apart from the omitted parameter.
C7_Witness ==
    /\ phase = "run"
    /\ AXLOCKD_PATH_VALUE.lit = <<>>
    /\ AXLOCKD_PATH_VALUE.defined
    /\ Recover(Resolved) # Omitted
    /\ \A r \in Readers : reads[r] # <<>>

\* C8: resolution cannot fail: for every build configuration the translation
\* step can be taken, and the one step yields a defined result, the absent
\* value or a string; no state holds an undefined or error value.
C8_CannotFail ==
    /\ phase = "build" => ENABLED Compile
    /\ phase = "run" =>
          /\ AXLOCKD_PATH \in {NullPtr, LiteralAddr}
          /\ Resolved.kind \in {"absent", "string"}
    /\ \A v \in AllReads : v.kind \in {"absent", "string"}

\* A build with a string of the greatest length, resolved, nothing read yet.
C8_Witness ==
    /\ phase = "run"
    /\ Len(AXLOCKD_PATH_VALUE.lit) = MaxLen
    /\ Resolved.kind = "string"
    /\ AllReads = {}

\* C9: the translation step yields the value the build parameter selects,
\* whatever the environment, and changes nothing but the resolved value; a
\* change of the environment or a read changes no part of the resolved value.
C9_OnlyBuildParameter ==
    [][/\ (phase = "build" /\ phase' = "run") =>
            /\ Resolved' = Expected(AXLOCKD_PATH_VALUE)
            /\ UNCHANGED <<AXLOCKD_PATH_VALUE, helperInstalled, reads>>
       /\ (helperInstalled' # helperInstalled \/ reads' # reads) =>
            UNCHANGED <<AXLOCKD_PATH, rodata>>]_vars

\* A development build running where the helper is installed: nothing was searched.
C9_Witness ==
    /\ phase = "run"
    /\ ~AXLOCKD_PATH_VALUE.defined
    /\ helperInstalled
    /\ Resolved = Absent

\* C10: exactly one of the two modes is selected, distribution when the build
\* parameter is defined and development when it is not; one definition of
\* AXLOCKD_PATH is produced, and the value is absent exactly when the build
\* parameter was omitted.
C10_ExactlyOneMode ==
    phase = "run" =>
        /\ Cardinality(mode) = 1
        /\ mode = {"distribution"} <=> AXLOCKD_PATH_VALUE.defined
        /\ mode = {"development"} <=> ~AXLOCKD_PATH_VALUE.defined
        /\ Resolved = Absent <=> ~AXLOCKD_PATH_VALUE.defined
        /\ AXLOCKD_PATH_VALUE.defined => Resolved = Str(AXLOCKD_PATH_VALUE.lit)

\* A distribution build.
C10_Witness ==
    /\ phase = "run"
    /\ mode = {"distribution"}
    /\ AXLOCKD_PATH_VALUE = Supplied(<<"/", "a", "/">>)

====
